---- MODULE Spec2Model ----
(***************************************************************************)
(* State-machine model of src/App.tsx: the ledger document held in React   *)
(* state, the save effect that mirrors it into the Persistence Store, the  *)
(* voice-capture handlers, the amount-input sanitiser and the sharing of    *)
(* the exported spreadsheet.                                               *)
(*                                                                         *)
(* Strings that the program only copies (names, descriptions) are short    *)
(* ASCII stand-ins.  Text that the program inspects character by character *)
(* (the amount input) is a sequence of one-character strings.              *)
(***************************************************************************)
EXTENDS Integers, Sequences, FiniteSets, TLC

VARIABLES
  data,             \* useState<S1aFormState>: [info, transactions]
  dataRef,          \* "sample" when data is the SAMPLE_DATA object itself, else "fresh"
  isLoaded,         \* useState(false)
  isProcessingAI,   \* useState(false)
  processingField,  \* useState<string | null>(null)
  aiFeedback,       \* useState<string | null>(null)
  showResetConfirm, \* useState(false)
  apiKeyError,      \* useState(false)
  now,              \* the reading of Date.now()
  calls,            \* Transcription Client calls awaiting their response
  timers,           \* pending setTimeout(() => setAiFeedback(null), 3000) callbacks
  dbQueue,          \* Persistence Store requests not yet settled, oldest first
  db,               \* what the Persistence Store holds: <<doc>>, or <<>> for nothing
  errorLogged,      \* console.error("Lỗi lưu DB:", err) has been called
  apiKeyMissing,    \* process.env.API_KEY is unset, "" or "undefined"
  share             \* the run of handleSendExcel: its position and what it did

vars == <<data, dataRef, isLoaded, isProcessingAI, processingField, aiFeedback,
          showResetConfirm, apiKeyError, now, calls, timers, dbQueue, db,
          errorLogged, apiKeyMissing, share>>

(***************************************************************************)
(* Bounds of the model.                                                    *)
(***************************************************************************)
MaxTx == 3        \* addTransaction is offered while fewer transactions exist
MaxTicks == 1     \* the clock advances at most this often
MaxQueue == 2     \* user events are offered while fewer store requests are pending
MaxCalls == 2     \* captures are offered while fewer transcription calls are pending
MaxTimers == 2    \* notifications are offered while fewer clear timers are pending
MaxLen == 3       \* longest text typed into the amount input
Now0 == 11        \* the first clock reading
TicksPerDay == 2  \* clock readings per calendar day

(***************************************************************************)
(* Values.                                                                 *)
(***************************************************************************)
Null == "<null>"       \* null

InfoFields == {"name", "address", "taxId", "location", "period"}

SAMPLE_DATA ==
  [info |-> [name |-> "Nguyen Van A",
             address |-> "123 Duong Lang, Ha Noi",
             taxId |-> "8000123456",
             location |-> "Cua hang Tap hoa So 1",
             period |-> "Thang 10/2023"],
   transactions |->
     << [id |-> "1", date |-> "01/10/2023",
         description |-> "Ban hang tap hoa le", amount |-> 2500000],
        [id |-> "2", date |-> "02/10/2023",
         description |-> "Cung cap dich vu giao hang", amount |-> 500000] >>]

MSG_ANALYSING == "AI dang phan tich..."
MSG_ADDED == "Da them thanh cong!"
MSG_NO_KEY == "Loi: Chua co API Key"
MSG_CONNECTION == "Loi ket noi AI. Thu lai sau."
PLACEHOLDER_DESC == "Giao dich moi"
API_KEY_MISSING == "API_KEY_MISSING"
SERVICE_UNAVAILABLE == "SERVICE_UNAVAILABLE"

(***************************************************************************)
(* Number.prototype.toString for a non-negative integer.                   *)
(***************************************************************************)
DigitChars == <<"0", "1", "2", "3", "4", "5", "6", "7", "8", "9">>

RECURSIVE NumToString(_)
NumToString(n) ==
  IF n < 10 THEN DigitChars[n + 1]
  ELSE NumToString(n \div 10) \o DigitChars[(n % 10) + 1]

\* Date.now().toString()
NewId(t) == NumToString(t)

\* new Date().toLocaleDateString('vi-VN'): the calendar day of the reading
LocaleDateString(t) == "day " \o NumToString(t \div TicksPerDay)

\* the key of a transaction's description target: `trans-${id}`
TransKey(id) == "trans-" \o id

(***************************************************************************)
(* Removal of one element of a sequence.                                   *)
(***************************************************************************)
RemoveAt(s, i) == SubSeq(s, 1, i - 1) \o SubSeq(s, i + 1, Len(s))

(***************************************************************************)
(* The Persistence Store (services/db): one document or nothing.  Requests *)
(* settle one at a time in the order they were issued; a save or a clear   *)
(* either succeeds or fails, a load returns what is stored.                *)
(***************************************************************************)
LoadRequest == [op |-> "load"]
SaveRequest(doc) == [op |-> "save", doc |-> doc]
ClearRequest == [op |-> "clear"]

\* loadFromDB(): the stored document, or undefined (the empty sequence)
loadFromDB(store) == store
\* saveToDB(doc) once it has succeeded
saveToDB(store, doc) == <<doc>>
\* clearDB() once it has succeeded
clearDB(store) == <<>>

\* what a load of the store yields to the program: the default sample
\* document substitutes for "nothing stored" (useState(SAMPLE_DATA))
LoadedDocument(store) == IF store = <<>> THEN SAMPLE_DATA ELSE store[1]

(***************************************************************************)
(* useEffect(() => { if (!isLoaded) return; saveToDB(data)... },           *)
(*           [data, isLoaded]): runs after a render in which data or       *)
(* isLoaded changed; q is the store's queue before the effect.             *)
(***************************************************************************)
\* the effect without its isLoaded test
SaveEffectUnguarded(loaded, doc, q) == Append(q, SaveRequest(doc))

\* the effect skipping its save while an earlier request is pending
SaveEffectSkipsWhenBusy(loaded, doc, q) ==
  IF ~loaded \/ q # <<>> THEN q ELSE Append(q, SaveRequest(doc))

\* the effect giving up once a save has failed
SaveEffectStopsAfterFailure(loaded, doc, q) ==
  IF ~loaded \/ errorLogged THEN q ELSE Append(q, SaveRequest(doc))

SaveEffect(loaded, doc, q) ==
  IF ~loaded THEN q ELSE Append(q, SaveRequest(doc))

(***************************************************************************)
(* The state updaters passed to setData.                                   *)
(***************************************************************************)
\* prev => ({ ...prev, info: { ...prev.info, [field]: value } })
InfoUpdater(prev, field, value) == [prev EXCEPT !.info[field] = value]

\* the updater putting the new transaction first
PrependUpdater(prev, newTrans) ==
  [prev EXCEPT !.transactions = <<newTrans>> \o @]

\* prev => ({ ...prev, transactions: [...prev.transactions, newTrans] })
AppendUpdater(prev, newTrans) ==
  [prev EXCEPT !.transactions = Append(@, newTrans)]

\* prev.transactions.map(t => t.id === id ? { ...t, [field]: value } : t)
UpdateUpdater(prev, id, field, value) ==
  LET Upd(t) == IF t.id = id THEN [t EXCEPT ![field] = value] ELSE t
  IN  [prev EXCEPT !.transactions = [i \in DOMAIN @ |-> Upd(@[i])]]

\* prev.transactions.filter(t => t.id !== id)
RemoveUpdater(prev, id) ==
  LET Keep(t) == t.id # id
  IN  [prev EXCEPT !.transactions = SelectSeq(@, Keep)]

\* the newTrans of addTransaction at clock reading t
ManualTransaction(t) ==
  [id |-> NewId(t), date |-> LocaleDateString(t), description |-> "", amount |-> 0]

\* x || fallback for a field of the parse result that may be missing:
\* a missing field, "" and 0 are falsy
OrElse(result, field, falsy, fallback) ==
  IF field \in DOMAIN result /\ result[field] # falsy
  THEN result[field] ELSE fallback

\* newTrans with an empty description for a result without one
SmartTransactionEmptyDescription(result, t) ==
  [id |-> NewId(t),
   date |-> OrElse(result, "date", "", LocaleDateString(t)),
   description |-> OrElse(result, "description", "", ""),
   amount |-> OrElse(result, "amount", 0, 0)]

\* the newTrans of handleSmartVoiceAdd for a parse result at clock reading t
SmartTransaction(result, t) ==
  [id |-> NewId(t),
   date |-> OrElse(result, "date", "", LocaleDateString(t)),
   description |-> OrElse(result, "description", "", PLACEHOLDER_DESC),
   amount |-> OrElse(result, "amount", 0, 0)]

(***************************************************************************)
(* setData(updater) followed by the render and the save effect.  An        *)
(* updater always builds a new object, so the effect always runs.          *)
(***************************************************************************)
SetData(newData) ==
  /\ data' = newData
  /\ dataRef' = "fresh"
  /\ dbQueue' = SaveEffect(isLoaded, newData, dbQueue)

\* a user event is offered while the store's queue has room
Room == Len(dbQueue) < MaxQueue

\* a transaction is added, or a capture that adds one is started, while the
\* ledger with the pending additions stays below MaxTx transactions
PendingAdds == Cardinality({i \in DOMAIN calls : calls[i].kind = "smart"})
TxRoom == Len(data.transactions) + PendingAdds < MaxTx

(***************************************************************************)
(* Ledger handlers.                                                        *)
(***************************************************************************)
handleInfoChange(field, value) ==
  /\ Room
  /\ SetData(InfoUpdater(data, field, value))
  /\ UNCHANGED <<isLoaded, isProcessingAI, processingField, aiFeedback,
                 showResetConfirm, apiKeyError, now, calls, timers, db,
                 errorLogged, apiKeyMissing, share>>

addTransaction ==
  /\ Room
  /\ TxRoom
  /\ SetData(AppendUpdater(data, ManualTransaction(now)))
  /\ UNCHANGED <<isLoaded, isProcessingAI, processingField, aiFeedback,
                 showResetConfirm, apiKeyError, now, calls, timers, db,
                 errorLogged, apiKeyMissing, share>>

updateTransaction(id, field, value) ==
  /\ Room
  /\ SetData(UpdateUpdater(data, id, field, value))
  /\ UNCHANGED <<isLoaded, isProcessingAI, processingField, aiFeedback,
                 showResetConfirm, apiKeyError, now, calls, timers, db,
                 errorLogged, apiKeyMissing, share>>

removeTransaction(id) ==
  /\ Room
  /\ SetData(RemoveUpdater(data, id))
  /\ UNCHANGED <<isLoaded, isProcessingAI, processingField, aiFeedback,
                 showResetConfirm, apiKeyError, now, calls, timers, db,
                 errorLogged, apiKeyMissing, share>>

\* the clock advances between events
Tick ==
  /\ now < Now0 + MaxTicks
  /\ now' = now + 1
  /\ UNCHANGED <<data, dataRef, isLoaded, isProcessingAI, processingField,
                 aiFeedback, showResetConfirm, apiKeyError, calls, timers,
                 dbQueue, db, errorLogged, apiKeyMissing, share>>

(***************************************************************************)
(* Startup load and the store's settling of requests.                      *)
(***************************************************************************)
\* initData after `await loadFromDB()`: the continuation, its render and
\* the save effect that isLoaded's change triggers
initData ==
  /\ dbQueue # <<>>
  /\ Head(dbQueue).op = "load"
  /\ LET savedData == loadFromDB(db)
         newData == IF savedData # <<>> THEN savedData[1] ELSE data
     IN  /\ data' = newData
         /\ dataRef' = IF savedData # <<>> THEN "fresh" ELSE dataRef
         /\ isLoaded' = TRUE
         /\ apiKeyError' = IF apiKeyMissing THEN TRUE ELSE apiKeyError
         /\ dbQueue' = SaveEffect(TRUE, newData, Tail(dbQueue))
  /\ UNCHANGED <<isProcessingAI, processingField, aiFeedback, showResetConfirm,
                 now, calls, timers, db, errorLogged, apiKeyMissing, share>>

\* a saveToDB(data) resolves
SaveSucceeds ==
  /\ dbQueue # <<>>
  /\ Head(dbQueue).op = "save"
  /\ db' = saveToDB(db, Head(dbQueue).doc)
  /\ dbQueue' = Tail(dbQueue)
  /\ UNCHANGED <<data, dataRef, isLoaded, isProcessingAI, processingField,
                 aiFeedback, showResetConfirm, apiKeyError, now, calls, timers,
                 errorLogged, apiKeyMissing, share>>

\* a saveToDB(data) rejects: .catch(err => console.error(...))
SaveFails ==
  /\ dbQueue # <<>>
  /\ Head(dbQueue).op = "save"
  /\ dbQueue' = Tail(dbQueue)
  /\ errorLogged' = TRUE
  /\ UNCHANGED <<data, dataRef, isLoaded, isProcessingAI, processingField,
                 aiFeedback, showResetConfirm, apiKeyError, now, calls, timers,
                 db, apiKeyMissing, share>>

\* the reset button: setShowResetConfirm(true)
openResetConfirm ==
  /\ ~showResetConfirm
  /\ showResetConfirm' = TRUE
  /\ UNCHANGED <<data, dataRef, isLoaded, isProcessingAI, processingField,
                 aiFeedback, apiKeyError, now, calls, timers, dbQueue, db,
                 errorLogged, apiKeyMissing, share>>

\* the dialog's cancel button: setShowResetConfirm(false)
cancelResetConfirm ==
  /\ showResetConfirm
  /\ showResetConfirm' = FALSE
  /\ UNCHANGED <<data, dataRef, isLoaded, isProcessingAI, processingField,
                 aiFeedback, apiKeyError, now, calls, timers, dbQueue, db,
                 errorLogged, apiKeyMissing, share>>

\* handleReset up to `await clearDB()`; the button exists while the dialog shows
handleReset ==
  /\ showResetConfirm
  /\ Room
  /\ dbQueue' = Append(dbQueue, ClearRequest)
  /\ UNCHANGED <<data, dataRef, isLoaded, isProcessingAI, processingField,
                 aiFeedback, showResetConfirm, apiKeyError, now, calls, timers,
                 db, errorLogged, apiKeyMissing, share>>

\* the queue after setData(SAMPLE_DATA): React renders, and the effect runs,
\* only when the state object changes
ResetEffect(ref, loaded, q) ==
  IF ref = "sample" THEN q ELSE SaveEffect(loaded, SAMPLE_DATA, q)

\* clearDB() resolves: handleReset continues with setData(SAMPLE_DATA) and
\* setShowResetConfirm(false)
ClearSucceeds ==
  /\ dbQueue # <<>>
  /\ Head(dbQueue).op = "clear"
  /\ db' = clearDB(db)
  /\ data' = SAMPLE_DATA
  /\ dataRef' = "sample"
  /\ showResetConfirm' = FALSE
  /\ dbQueue' = ResetEffect(dataRef, isLoaded, Tail(dbQueue))
  /\ UNCHANGED <<isLoaded, isProcessingAI, processingField, aiFeedback,
                 apiKeyError, now, calls, timers, errorLogged, apiKeyMissing, share>>

\* clearDB() rejects: handleReset ends with the rejection
ClearFails ==
  /\ dbQueue # <<>>
  /\ Head(dbQueue).op = "clear"
  /\ dbQueue' = Tail(dbQueue)
  /\ UNCHANGED <<data, dataRef, isLoaded, isProcessingAI, processingField,
                 aiFeedback, showResetConfirm, apiKeyError, now, calls, timers,
                 db, errorLogged, apiKeyMissing, share>>

(***************************************************************************)
(* Voice capture.  A VoiceInput hands a finished recording to its          *)
(* onAudioCapture callback; it takes no new recording while its            *)
(* isProcessing prop is true.                                              *)
(***************************************************************************)
VoiceInputEnabled(isProcessing) == ~isProcessing

\* a capture is offered while the model has room for its call and its timer
CaptureRoom ==
  /\ Len(calls) < MaxCalls
  /\ timers + Len(calls) < MaxTimers

FieldCall(field) == [kind |-> "field", target |-> field]
DescCall(id) == [kind |-> "desc", target |-> id]
SmartCall == [kind |-> "smart", target |-> "new"]

\* what a Transcription Client call can answer
Success(value) == [ok |-> TRUE, value |-> value]
Failure(message) == [ok |-> FALSE, message |-> message]

\* handleError without its API_KEY_MISSING branch
handleErrorGeneric(message) ==
  /\ apiKeyError' = apiKeyError
  /\ aiFeedback' = MSG_CONNECTION
  /\ timers' = timers + 1

\* handleError(e) and its setTimeout
handleError(message) ==
  /\ apiKeyError' = IF message = API_KEY_MISSING THEN TRUE ELSE apiKeyError
  /\ aiFeedback' = IF message = API_KEY_MISSING THEN MSG_NO_KEY ELSE MSG_CONNECTION
  /\ timers' = timers + 1

\* handleVoiceForField returning at once while the AI status is Offline
handleVoiceForFieldWhenOnline(field) ==
  /\ ~apiKeyError
  /\ VoiceInputEnabled(processingField = field)
  /\ CaptureRoom
  /\ processingField' = field
  /\ calls' = Append(calls, FieldCall(field))
  /\ UNCHANGED <<data, dataRef, isLoaded, isProcessingAI, aiFeedback,
                 showResetConfirm, apiKeyError, now, timers, dbQueue, db,
                 errorLogged, apiKeyMissing, share>>

\* handleVoiceForField up to `await transcribeStandardizedInfo(...)`
handleVoiceForField(field) ==
  /\ VoiceInputEnabled(processingField = field)
  /\ CaptureRoom
  /\ processingField' = field
  /\ calls' = Append(calls, FieldCall(field))
  /\ UNCHANGED <<data, dataRef, isLoaded, isProcessingAI, aiFeedback,
                 showResetConfirm, apiKeyError, now, timers, dbQueue, db,
                 errorLogged, apiKeyMissing, share>>

\* handleVoiceForField from the call's answer on, its finally block running
\* only after a success
FieldResponseMarkKeptOnFailure(i, outcome) ==
  /\ i \in DOMAIN calls
  /\ calls[i].kind = "field"
  /\ IF outcome.ok
     THEN /\ IF outcome.value # ""
             THEN SetData(InfoUpdater(data, calls[i].target, outcome.value))
             ELSE UNCHANGED <<data, dataRef, dbQueue>>
          /\ processingField' = Null
          /\ UNCHANGED <<apiKeyError, aiFeedback, timers>>
     ELSE /\ handleError(outcome.message)
          /\ UNCHANGED <<data, dataRef, dbQueue, processingField>>
  /\ calls' = RemoveAt(calls, i)
  /\ UNCHANGED <<isLoaded, isProcessingAI, showResetConfirm, now, db,
                 errorLogged, apiKeyMissing, share>>

\* handleVoiceForField from the call's answer on: try / catch / finally
FieldResponse(i, outcome) ==
  /\ i \in DOMAIN calls
  /\ calls[i].kind = "field"
  /\ IF outcome.ok
     THEN /\ IF outcome.value # ""
             THEN SetData(InfoUpdater(data, calls[i].target, outcome.value))
             ELSE UNCHANGED <<data, dataRef, dbQueue>>
          /\ UNCHANGED <<apiKeyError, aiFeedback, timers>>
     ELSE /\ handleError(outcome.message)
          /\ UNCHANGED <<data, dataRef, dbQueue>>
  /\ processingField' = Null
  /\ calls' = RemoveAt(calls, i)
  /\ UNCHANGED <<isLoaded, isProcessingAI, showResetConfirm, now, db,
                 errorLogged, apiKeyMissing, share>>

\* handleVoiceForTransactionDesc up to `await transcribeAudio(...)`
handleVoiceForTransactionDesc(id) ==
  /\ VoiceInputEnabled(processingField = TransKey(id))
  /\ CaptureRoom
  /\ processingField' = TransKey(id)
  /\ calls' = Append(calls, DescCall(id))
  /\ UNCHANGED <<data, dataRef, isLoaded, isProcessingAI, aiFeedback,
                 showResetConfirm, apiKeyError, now, timers, dbQueue, db,
                 errorLogged, apiKeyMissing, share>>

\* handleVoiceForTransactionDesc from the call's answer on
DescResponse(i, outcome) ==
  /\ i \in DOMAIN calls
  /\ calls[i].kind = "desc"
  /\ IF outcome.ok
     THEN /\ IF outcome.value # ""
             THEN SetData(UpdateUpdater(data, calls[i].target, "description",
                                        outcome.value))
             ELSE UNCHANGED <<data, dataRef, dbQueue>>
          /\ UNCHANGED <<apiKeyError, aiFeedback, timers>>
     ELSE /\ handleError(outcome.message)
          /\ UNCHANGED <<data, dataRef, dbQueue>>
  /\ processingField' = Null
  /\ calls' = RemoveAt(calls, i)
  /\ UNCHANGED <<isLoaded, isProcessingAI, showResetConfirm, now, db,
                 errorLogged, apiKeyMissing, share>>

\* handleSmartVoiceAdd up to `await parseTransactionFromAudio(...)`
handleSmartVoiceAdd(audioBase64) ==
  /\ VoiceInputEnabled(isProcessingAI)
  /\ CaptureRoom
  /\ TxRoom
  /\ IF audioBase64 = ""
     THEN UNCHANGED <<isProcessingAI, aiFeedback, calls>>
     ELSE /\ isProcessingAI' = TRUE
          /\ aiFeedback' = MSG_ANALYSING
          /\ calls' = Append(calls, SmartCall)
  /\ UNCHANGED <<data, dataRef, isLoaded, processingField, showResetConfirm,
                 apiKeyError, now, timers, dbQueue, db, errorLogged,
                 apiKeyMissing, share>>

\* handleSmartVoiceAdd from the call's answer on
SmartResponse(i, outcome) ==
  /\ i \in DOMAIN calls
  /\ calls[i].kind = "smart"
  /\ IF outcome.ok
     THEN /\ SetData(AppendUpdater(data, SmartTransaction(outcome.value, now)))
          /\ aiFeedback' = MSG_ADDED
          /\ timers' = timers + 1
          /\ UNCHANGED apiKeyError
     ELSE /\ handleError(outcome.message)
          /\ UNCHANGED <<data, dataRef, dbQueue>>
  /\ isProcessingAI' = FALSE
  /\ calls' = RemoveAt(calls, i)
  /\ UNCHANGED <<isLoaded, processingField, showResetConfirm, now, db,
                 errorLogged, apiKeyMissing, share>>

\* a setTimeout(() => setAiFeedback(null), 3000) callback runs; the
\* callbacks are alike and run oldest first
TimerFires ==
  /\ timers > 0
  /\ timers' = timers - 1
  /\ aiFeedback' = Null
  /\ UNCHANGED <<data, dataRef, isLoaded, isProcessingAI, processingField,
                 showResetConfirm, apiKeyError, now, calls, dbQueue, db,
                 errorLogged, apiKeyMissing, share>>

(***************************************************************************)
(* The amount input.  Text is a sequence of one-character strings.         *)
(***************************************************************************)
IsDigit(c) == c \in {"0", "1", "2", "3", "4", "5", "6", "7", "8", "9"}

DigitValue(c) == CHOOSE d \in 0..9 : DigitChars[d + 1] = c

\* value.replace(/\./g, '')
StripDots(value) == LET NotDot(c) == c # "." IN SelectSeq(value, NotDot)

\* value.replace(/[^0-9]/g, '')
StripNonDigits(value) == SelectSeq(value, IsDigit)

\* the longest prefix of digits
RECURSIVE DigitPrefix(_)
DigitPrefix(text) ==
  IF text = <<>> \/ ~IsDigit(Head(text)) THEN <<>>
  ELSE <<Head(text)>> \o DigitPrefix(Tail(text))

RECURSIVE SkipSpaces(_)
SkipSpaces(text) ==
  IF text # <<>> /\ Head(text) = " " THEN SkipSpaces(Tail(text)) ELSE text

RECURSIVE DigitsToNumber(_, _)
DigitsToNumber(digits, acc) ==
  IF digits = <<>> THEN acc
  ELSE DigitsToNumber(Tail(digits), 10 * acc + DigitValue(Head(digits)))

\* parseInt(text, 10): leading white space, an optional sign, then the
\* longest prefix of digits; NaN when there is none
NaN == [nan |-> TRUE]
Number(n) == [nan |-> FALSE, n |-> n]

parseInt(text) ==
  LET t == SkipSpaces(text)
      negative == t # <<>> /\ Head(t) = "-"
      signed == t # <<>> /\ Head(t) \in {"-", "+"}
      digits == DigitPrefix(IF signed THEN Tail(t) ELSE t)
  IN  IF digits = <<>> THEN NaN
      ELSE Number(IF negative THEN 0 - DigitsToNumber(digits, 0)
                  ELSE DigitsToNumber(digits, 0))

\* the sanitiser without its second replace
parseAmountInputDotsOnly(value) ==
  LET num == parseInt(StripDots(value))
  IN  IF num.nan THEN 0 ELSE num.n

parseAmountInput(value) ==
  LET cleanValue == StripNonDigits(StripDots(value))
      num == parseInt(cleanValue)
  IN  IF num.nan THEN 0 ELSE num.n

\* onChange of a transaction's amount input:
\* updateTransaction(item.id, 'amount', parseAmountInput(e.target.value))
amountOnChange(id, text) == updateTransaction(id, "amount", parseAmountInput(text))

(***************************************************************************)
(* The export/share pipeline.  share.pc is the position of the run of      *)
(* handleSendExcel, share.doc the `data` its render saw (the handler and   *)
(* the timer callback read it from their closure), share.did what the run  *)
(* has done so far, in order.                                              *)
(***************************************************************************)
Effect(op, doc) == [op |-> op, doc |-> doc]

\* exportToExcel(data) (utils/exportUtils): the browser downloads the
\* spreadsheet rendered from the document
exportToExcel(doc) == Effect("download", doc)

\* no run yet: the closure of the first render saw SAMPLE_DATA
ShareIdle == [pc |-> "idle", doc |-> SAMPLE_DATA, did |-> <<>>]

\* a run has ended: with the native share, or with the fallback
ShareEnded == share.pc \in {"idle", "shared", "fallback"}

\* fallbackEmail without its exportToExcel(data)
fallbackEmailNoDownload(did, doc) ==
  [pc |-> "timer", doc |-> doc, did |-> Append(did, Effect("alert", doc))]

\* fallbackEmail(fileName): alert(...), exportToExcel(data), setTimeout(..., 1000)
fallbackEmail(did, doc) ==
  [pc |-> "timer", doc |-> doc,
   did |-> did \o <<Effect("alert", doc), exportToExcel(doc)>>]

\* handleSendExcel up to `await navigator.share(...)`, or through
\* fallbackEmail; canShare is the outcome of
\* navigator.share && navigator.canShare && navigator.canShare({ files: [file] })
handleSendExcel(canShare) ==
  /\ ShareEnded
  /\ share' = IF canShare
              THEN [pc |-> "sharing", doc |-> data,
                    did |-> <<Effect("share", data)>>]
              ELSE fallbackEmail(<<>>, data)
  /\ UNCHANGED <<data, dataRef, isLoaded, isProcessingAI, processingField,
                 aiFeedback, showResetConfirm, apiKeyError, now, calls, timers,
                 dbQueue, db, errorLogged, apiKeyMissing>>

\* navigator.share(...) resolves: handleSendExcel ends
ShareResolves ==
  /\ share.pc = "sharing"
  /\ share' = [share EXCEPT !.pc = "shared"]
  /\ UNCHANGED <<data, dataRef, isLoaded, isProcessingAI, processingField,
                 aiFeedback, showResetConfirm, apiKeyError, now, calls, timers,
                 dbQueue, db, errorLogged, apiKeyMissing>>

\* navigator.share(...) rejects (refused or cancelled): catch { fallbackEmail }
ShareRejects ==
  /\ share.pc = "sharing"
  /\ share' = fallbackEmail(share.did, share.doc)
  /\ UNCHANGED <<data, dataRef, isLoaded, isProcessingAI, processingField,
                 aiFeedback, showResetConfirm, apiKeyError, now, calls, timers,
                 dbQueue, db, errorLogged, apiKeyMissing>>

\* the callback of fallbackEmail's setTimeout: window.location.href = mailto
MailTimerFires ==
  /\ share.pc = "timer"
  /\ share' = [share EXCEPT !.pc = "fallback",
                            !.did = Append(@, Effect("mailto", share.doc))]
  /\ UNCHANGED <<data, dataRef, isLoaded, isProcessingAI, processingField,
                 aiFeedback, showResetConfirm, apiKeyError, now, calls, timers,
                 dbQueue, db, errorLogged, apiKeyMissing>>

(***************************************************************************)
(* The state after construction: App is mounted, the mount effect has      *)
(* called loadFromDB(), the store holds what an earlier session left.      *)
(***************************************************************************)
\* documents an earlier session can have saved
EarlierDocument ==
  [SAMPLE_DATA EXCEPT !.info.name = "Tran Thi B",
                      !.transactions = <<SAMPLE_DATA.transactions[2]>>]

StoredAtStart == {<<>>, <<SAMPLE_DATA>>, <<EarlierDocument>>}

Init ==
  /\ data = SAMPLE_DATA
  /\ dataRef = "sample"
  /\ isLoaded = FALSE
  /\ isProcessingAI = FALSE
  /\ processingField = Null
  /\ aiFeedback = Null
  /\ showResetConfirm = FALSE
  /\ apiKeyError = FALSE
  /\ now = Now0
  /\ calls = <<>>
  /\ timers = 0
  /\ dbQueue = <<LoadRequest>>
  /\ db \in StoredAtStart
  /\ errorLogged = FALSE
  /\ apiKeyMissing \in BOOLEAN
  /\ share = ShareIdle

(***************************************************************************)
(* Spec: the ledger and its Persistence Store under every interleaving of  *)
(* edits, resets and the store's settling of load, save and clear.         *)
(***************************************************************************)
TypedNames == {"Le Van C"}

Next ==
  \/ \E value \in TypedNames : handleInfoChange("name", value)
  \/ addTransaction
  \/ \E i \in DOMAIN data.transactions : removeTransaction(data.transactions[i].id)
  \/ openResetConfirm
  \/ cancelResetConfirm
  \/ handleReset
  \/ initData
  \/ SaveSucceeds
  \/ SaveFails
  \/ ClearSucceeds
  \/ ClearFails

Spec == Init /\ [][Next]_vars

(***************************************************************************)
(* What the Transcription Client (services/geminiService) can answer: it   *)
(* fails with API_KEY_MISSING only when no credential is configured.       *)
(***************************************************************************)
Failures ==
  IF apiKeyMissing
  THEN {Failure(API_KEY_MISSING), Failure(SERVICE_UNAVAILABLE)}
  ELSE {Failure(SERVICE_UNAVAILABLE)}

SpokenTexts == {"", "Ban hang qua dien thoai"}

TextOutcomes ==
  Failures \cup (IF apiKeyMissing THEN {} ELSE {Success(t) : t \in SpokenTexts})

\* results of parseTransactionFromAudio: any field may be missing
ParseResults ==
  { [amount |-> 5000000],
    [date |-> "03/10/2023", description |-> "Ban le", amount |-> 1000000],
    [date |-> "", description |-> "", amount |-> 0],
    [description |-> "Tra hang", amount |-> 0 - 3] }

ParseOutcomes ==
  Failures \cup (IF apiKeyMissing THEN {} ELSE {Success(r) : r \in ParseResults})

\* no save is waiting to settle
StoreQuiet == dbQueue = <<>> \/ ~isLoaded

(***************************************************************************)
(* SpecLedger: the ledger operations with their inputs; the store settles  *)
(* each save before the next event is handled.                             *)
(***************************************************************************)
TypedDescriptions == {"Ban hang"}

LedgerParseOutcomes ==
  Failures \cup (IF apiKeyMissing THEN {}
                 ELSE {Success([amount |-> 5000000])})

NextLedger ==
  \/ StoreQuiet /\ addTransaction
  \/ StoreQuiet /\ \E i \in DOMAIN data.transactions, value \in TypedDescriptions :
       updateTransaction(data.transactions[i].id, "description", value)
  \/ StoreQuiet /\ \E i \in DOMAIN data.transactions :
       removeTransaction(data.transactions[i].id)
  \/ StoreQuiet /\ \E audio \in {"", "audio"} : handleSmartVoiceAdd(audio)
  \/ StoreQuiet /\ \E i \in DOMAIN calls, outcome \in LedgerParseOutcomes :
       SmartResponse(i, outcome)
  \/ StoreQuiet /\ TimerFires
  \/ StoreQuiet /\ Tick
  \/ initData
  \/ SaveSucceeds

InitLedger == Init /\ db \in {<<>>, <<EarlierDocument>>} /\ ~apiKeyMissing

SpecLedger == InitLedger /\ [][NextLedger]_vars

(***************************************************************************)
(* SpecSmart: the new-transaction capture with every shape of parse        *)
(* result, at different clock readings.                                    *)
(***************************************************************************)
NextSmart ==
  \/ StoreQuiet /\ \E audio \in {"", "audio"} : handleSmartVoiceAdd(audio)
  \/ StoreQuiet /\ \E i \in DOMAIN calls, outcome \in ParseOutcomes :
       SmartResponse(i, outcome)
  \/ StoreQuiet /\ \E i \in DOMAIN data.transactions :
       removeTransaction(data.transactions[i].id)
  \/ StoreQuiet /\ TimerFires
  \/ StoreQuiet /\ Tick
  \/ initData
  \/ SaveSucceeds

SpecSmart == Init /\ [][NextSmart]_vars

(***************************************************************************)
(* SpecVoice: the three kinds of capture running side by side, with the    *)
(* removals that can overtake a pending capture.                           *)
(***************************************************************************)
VoiceFields == {"name", "taxId"}

VoiceParseOutcomes ==
  Failures \cup (IF apiKeyMissing THEN {} ELSE {Success([amount |-> 5000000])})

NextVoice ==
  \/ StoreQuiet /\ \E field \in VoiceFields : handleVoiceForField(field)
  \/ StoreQuiet /\ \E i \in DOMAIN calls, outcome \in TextOutcomes :
       FieldResponse(i, outcome)
  \/ StoreQuiet /\ \E i \in DOMAIN data.transactions :
       handleVoiceForTransactionDesc(data.transactions[i].id)
  \/ StoreQuiet /\ \E i \in DOMAIN calls, outcome \in TextOutcomes :
       DescResponse(i, outcome)
  \/ StoreQuiet /\ \E audio \in {"", "audio"} : handleSmartVoiceAdd(audio)
  \/ StoreQuiet /\ \E i \in DOMAIN calls, outcome \in VoiceParseOutcomes :
       SmartResponse(i, outcome)
  \/ StoreQuiet /\ \E i \in DOMAIN data.transactions :
       removeTransaction(data.transactions[i].id)
  \/ StoreQuiet /\ TimerFires
  \/ initData
  \/ SaveSucceeds

InitVoice == Init /\ db = <<>>

SpecVoice == InitVoice /\ [][NextVoice]_vars

(***************************************************************************)
(* SpecAmount: every short text typed into the amount input of a loaded    *)
(* one-transaction ledger.                                                 *)
(***************************************************************************)
AmountChars == {"1", "2", ".", "a"}

RECURSIVE TextsOfLength(_)
TextsOfLength(n) ==
  IF n = 0 THEN {<<>>}
  ELSE {Append(text, c) : text \in TextsOfLength(n - 1), c \in AmountChars}

AmountTexts == UNION {TextsOfLength(n) : n \in 0..MaxLen}

InitAmount == Init /\ db = <<EarlierDocument>> /\ ~apiKeyMissing

NextAmount ==
  \/ dbQueue = <<>> /\ \E i \in DOMAIN data.transactions, text \in AmountTexts :
       amountOnChange(data.transactions[i].id, text)
  \/ initData
  \/ SaveSucceeds

SpecAmount == InitAmount /\ [][NextAmount]_vars

(***************************************************************************)
(* SpecStale: captures whose answer arrives after the reset dialog was     *)
(* confirmed or after their transaction was removed.  The dialog covers    *)
(* the page, so no capture starts and no transaction is removed while it   *)
(* shows; a capture is started on a document that was loaded or edited     *)
(* (dataRef = "fresh"), so a call that is pending while data is the        *)
(* SAMPLE_DATA object again was started before the reset.                  *)
(***************************************************************************)
StaleFields == {"name"}

PageFree == ~showResetConfirm /\ StoreQuiet

NextStale ==
  \/ PageFree /\ dataRef = "fresh" /\ \E field \in StaleFields :
       handleVoiceForField(field)
  \/ PageFree /\ dataRef = "fresh" /\ \E i \in DOMAIN data.transactions :
       handleVoiceForTransactionDesc(data.transactions[i].id)
  \/ PageFree /\ dataRef = "fresh" /\ handleSmartVoiceAdd("audio")
  \/ StoreQuiet /\ \E i \in DOMAIN calls, outcome \in TextOutcomes :
       FieldResponse(i, outcome)
  \/ StoreQuiet /\ \E i \in DOMAIN calls, outcome \in TextOutcomes :
       DescResponse(i, outcome)
  \/ StoreQuiet /\ \E i \in DOMAIN calls, outcome \in VoiceParseOutcomes :
       SmartResponse(i, outcome)
  \/ PageFree /\ \E i \in DOMAIN data.transactions :
       removeTransaction(data.transactions[i].id)
  \/ StoreQuiet /\ TimerFires
  \/ StoreQuiet /\ openResetConfirm
  \/ StoreQuiet /\ handleReset
  \/ ClearSucceeds
  \/ initData
  \/ SaveSucceeds

InitStale == Init /\ db = <<EarlierDocument>> /\ ~apiKeyMissing

SpecStale == InitStale /\ [][NextStale]_vars

(***************************************************************************)
(* SpecCapture: captures of the three kinds whose calls answer at any      *)
(* time, also while a save is pending; every pending call is answered      *)
(* eventually.                                                             *)
(***************************************************************************)
CaptureFields == {"name"}

FieldAnswer ==
  \E i \in DOMAIN calls, outcome \in TextOutcomes : FieldResponse(i, outcome)

DescAnswer ==
  \E i \in DOMAIN calls, outcome \in TextOutcomes : DescResponse(i, outcome)

SmartAnswer ==
  \E i \in DOMAIN calls, outcome \in VoiceParseOutcomes : SmartResponse(i, outcome)

NextCapture ==
  \/ StoreQuiet /\ \E field \in CaptureFields : handleVoiceForField(field)
  \/ FieldAnswer
  \/ StoreQuiet /\ \E i \in DOMAIN data.transactions :
       handleVoiceForTransactionDesc(data.transactions[i].id)
  \/ DescAnswer
  \/ StoreQuiet /\ handleSmartVoiceAdd("audio")
  \/ SmartAnswer
  \/ TimerFires
  \/ initData
  \/ SaveSucceeds

InitCapture == Init /\ db = <<>>

SpecCapture ==
  /\ InitCapture
  /\ [][NextCapture]_vars
  /\ WF_vars(FieldAnswer)
  /\ WF_vars(DescAnswer)
  /\ WF_vars(SmartAnswer)

(***************************************************************************)
(* SpecShare: runs of handleSendExcel, one at a time, on a document that   *)
(* is loaded and edited meanwhile.  The platform settles every             *)
(* navigator.share(...) promise and runs every timer callback.             *)
(***************************************************************************)
NextShare ==
  \/ StoreQuiet /\ \E value \in TypedNames : handleInfoChange("name", value)
  \/ \E canShare \in BOOLEAN : handleSendExcel(canShare)
  \/ ShareResolves
  \/ ShareRejects
  \/ MailTimerFires
  \/ initData
  \/ SaveSucceeds

SpecShare ==
  /\ Init
  /\ [][NextShare]_vars
  /\ WF_vars(ShareResolves \/ ShareRejects)
  /\ WF_vars(MailTimerFires)

(***************************************************************************)
(* SpecOffline: captures, manual edits, reset and export with and without  *)
(* a configured credential.                                                *)
(***************************************************************************)
NextOffline ==
  \/ StoreQuiet /\ \E field \in CaptureFields : handleVoiceForField(field)
  \/ StoreQuiet /\ FieldAnswer
  \/ StoreQuiet /\ handleSmartVoiceAdd("audio")
  \/ StoreQuiet /\ SmartAnswer
  \/ StoreQuiet /\ \E value \in TypedNames : handleInfoChange("name", value)
  \/ StoreQuiet /\ addTransaction
  \/ StoreQuiet /\ openResetConfirm
  \/ StoreQuiet /\ handleReset
  \/ ClearSucceeds
  \/ StoreQuiet /\ \E canShare \in BOOLEAN : handleSendExcel(canShare)
  \/ ShareResolves
  \/ ShareRejects
  \/ MailTimerFires
  \/ StoreQuiet /\ TimerFires
  \/ initData
  \/ SaveSucceeds

InitOffline == Init /\ db = <<>>

SpecOffline == InitOffline /\ [][NextOffline]_vars

(***************************************************************************)
(* Properties.                                                             *)
(***************************************************************************)
Transactions == data.transactions

\* C1: no two transactions of the ledger have the same id, also when two
\* transactions are added at the same clock reading.
C1_TransactionIdsUnique ==
  \A i, j \in DOMAIN Transactions :
    i # j => Transactions[i].id # Transactions[j].id

\* the positions of s that hold a transaction with another id than `id`
SurvivingPositions(s, id) == {k \in DOMAIN s : s[k].id # id}

\* t holds exactly the transactions of s at the positions P, in s's order
KeepsOrder(s, t, P) ==
  /\ Len(t) = Cardinality(P)
  /\ \A k \in P : t[Cardinality({m \in P : m <= k})] = s[k]

\* C2: a new transaction (manual or from a voice parse) goes after every
\* existing one, which all stay in place; an update keeps every position's
\* id; a removal keeps the surviving transactions in their order.
C2_InsertionOrderPreserved ==
  [][ /\ addTransaction =>
           /\ Len(Transactions') = Len(Transactions) + 1
           /\ SubSeq(Transactions', 1, Len(Transactions)) = Transactions
           /\ Transactions'[Len(Transactions')] = ManualTransaction(now)
      /\ \A i \in DOMAIN calls, outcome \in LedgerParseOutcomes :
           (outcome.ok /\ SmartResponse(i, outcome)) =>
              /\ Len(Transactions') = Len(Transactions) + 1
              /\ SubSeq(Transactions', 1, Len(Transactions)) = Transactions
              /\ Transactions'[Len(Transactions')].id = NewId(now)
      /\ \A i \in DOMAIN Transactions, value \in TypedDescriptions :
           updateTransaction(Transactions[i].id, "description", value) =>
              /\ Len(Transactions') = Len(Transactions)
              /\ \A k \in DOMAIN Transactions :
                   Transactions'[k].id = Transactions[k].id
      /\ \A i \in DOMAIN Transactions :
           removeTransaction(Transactions[i].id) =>
              KeepsOrder(Transactions, Transactions',
                         SurvivingPositions(Transactions, Transactions[i].id))
    ]_vars

\* C2's case: a sample transaction was removed and two transactions were
\* added at different clock readings
C2_Witness ==
  /\ Len(Transactions) = 3
  /\ Transactions[1].id = "2"
  /\ Transactions[2].id = NewId(Now0)
  /\ Transactions[3].id = NewId(Now0 + 1)

\* C3: at most one capture is in flight per target.
C3_OneCapturePerTarget ==
  \A i, j \in DOMAIN calls : i # j => calls[i] # calls[j]

NoSaveQueued == \A i \in DOMAIN dbQueue : dbQueue[i].op # "save"

\* C4: while isLoaded is false no save has been issued and the store keeps
\* what it held; isLoaded never returns to false.
C4_NoSaveBeforeLoad ==
  /\ [](~isLoaded => NoSaveQueued)
  /\ [][~isLoaded => db' = db]_vars
  /\ [][isLoaded => isLoaded']_vars

\* C4's case: the document was edited before the load resolved
C4_Witness ==
  /\ ~isLoaded
  /\ dataRef = "fresh"
  /\ data # SAMPLE_DATA
  /\ Len(dbQueue) > 1

\* every save issued so far has settled, and none has failed
SavesSettledWell == isLoaded /\ dbQueue = <<>> /\ ~errorLogged

\* C5 as stated: once every save has succeeded, the store holds the
\* in-memory document.
C5_StoreHoldsMemory == SavesSettledWell => db = <<data>>

\* C5 as amended: once every save has succeeded, a load of the store yields
\* the in-memory document (nothing stored yields the default sample).
C5_LastMutationWins == SavesSettledWell => LoadedDocument(db) = data

\* C5's case: edits were made after the load and their saves have settled
C5_Witness ==
  /\ SavesSettledWell
  /\ data.info.name \in TypedNames
  /\ Len(Transactions) = 3
  /\ db = <<data>>

\* C6: after a reset (data is the SAMPLE_DATA object again) and once the
\* store has settled, a load of the store yields the default sample.
C6_ResetThenLoadYieldsDefault ==
  (isLoaded /\ dataRef = "sample" /\ dbQueue = <<>>) =>
     LoadedDocument(db) = SAMPLE_DATA

IsAmount(a) == a \in Nat

AmountsOf(doc) == {doc.transactions[i].amount : i \in DOMAIN doc.transactions}

\* C7: every amount in the ledger, in a document handed to the store and in
\* the stored document is a non-negative integer.
C7_AmountsNonNegative ==
  /\ \A a \in AmountsOf(data) : IsAmount(a)
  /\ \A i \in DOMAIN dbQueue :
       dbQueue[i].op = "save" => \A a \in AmountsOf(dbQueue[i].doc) : IsAmount(a)
  /\ \A i \in DOMAIN db : \A a \in AmountsOf(db[i]) : IsAmount(a)

\* 10^n
RECURSIVE Pow10(_)
Pow10(n) == IF n = 0 THEN 1 ELSE 10 * Pow10(n - 1)

\* the sum of a function's values over the positions 1..n
RECURSIVE SumTo(_, _)
SumTo(f, n) == IF n = 0 THEN 0 ELSE f[n] + SumTo(f, n - 1)

\* the number whose decimal digits are the digits of the text, in order
NumberOfDigits(text) ==
  LET digits == SelectSeq(text, IsDigit)
      weighted == [k \in DOMAIN digits |->
                     DigitValue(digits[k]) * Pow10(Len(digits) - k)]
  IN  SumTo(weighted, Len(digits))

\* C8: typing text v into a transaction's amount input stores the number
\* formed by v's digits in order, and 0 when v has no digit.
C8_AmountIsDigitsOfInput ==
  [][ \A i \in DOMAIN Transactions, text \in AmountTexts :
        amountOnChange(Transactions[i].id, text) =>
           /\ Transactions'[i].amount = NumberOfDigits(text)
           /\ Transactions'[i].amount \in Nat
    ]_vars

\* C8's case: a text with a dot and a letter among its digits was typed
C8_Witness == \E i \in DOMAIN Transactions : Transactions[i].amount = 12

\* a capture's call is answered by a failure
FailureStep(i, outcome) ==
  \/ FieldResponse(i, outcome)
  \/ DescResponse(i, outcome)
  \/ SmartResponse(i, outcome)

\* C9: a capture that fails with API_KEY_MISSING sets apiKeyError and the
\* credential message; one that fails otherwise sets the connection message
\* and leaves apiKeyError as it was.
C9_ErrorClassified ==
  [][ \A i \in DOMAIN calls, outcome \in Failures :
        FailureStep(i, outcome) =>
           IF outcome.message = API_KEY_MISSING
           THEN apiKeyError' /\ aiFeedback' = MSG_NO_KEY
           ELSE apiKeyError' = apiKeyError /\ aiFeedback' = MSG_CONNECTION
    ]_vars

\* C9's case: a capture failed for want of a credential before the startup
\* check had set the flag
C9_Witness == ~isLoaded /\ apiKeyError /\ aiFeedback = MSG_NO_KEY

Has(result, field) == field \in DOMAIN result

\* the transaction a successful parse appended
Appended == Transactions'[Len(Transactions')]

OneAppended ==
  /\ Len(Transactions') = Len(Transactions) + 1
  /\ SubSeq(Transactions', 1, Len(Transactions)) = Transactions

\* C10 as stated: a successful parse appends one transaction; a field the
\* service omitted takes its default, a field it returned is stored as
\* returned.
C10_ReturnedFieldsStored ==
  [][ \A i \in DOMAIN calls, outcome \in ParseOutcomes :
        (outcome.ok /\ SmartResponse(i, outcome)) =>
           LET r == outcome.value
           IN  /\ OneAppended
               /\ Appended.date =
                    IF Has(r, "date") THEN r.date ELSE LocaleDateString(now)
               /\ IF Has(r, "description")
                  THEN Appended.description = r.description
                  ELSE Appended.description # ""
               /\ Appended.amount = IF Has(r, "amount") THEN r.amount ELSE 0
    ]_vars

\* C10 as amended: a returned date or description that is the empty string
\* is treated like an omitted one.
C10_TruthyFieldsStored ==
  [][ \A i \in DOMAIN calls, outcome \in ParseOutcomes :
        (outcome.ok /\ SmartResponse(i, outcome)) =>
           LET r == outcome.value
           IN  /\ OneAppended
               /\ Appended.date =
                    IF Has(r, "date") /\ r.date # ""
                    THEN r.date ELSE LocaleDateString(now)
               /\ IF Has(r, "description") /\ r.description # ""
                  THEN Appended.description = r.description
                  ELSE Appended.description = PLACEHOLDER_DESC
               /\ PLACEHOLDER_DESC # ""
               /\ Appended.amount = IF Has(r, "amount") THEN r.amount ELSE 0
    ]_vars

\* C10's case: a parse that returned only amount 5000000 was appended on
\* the second calendar day of the run
C10_Witness ==
  \E i \in DOMAIN Transactions :
    /\ Transactions[i].amount = 5000000
    /\ Transactions[i].description = PLACEHOLDER_DESC
    /\ Transactions[i].date = LocaleDateString(Now0 + MaxTicks)
    /\ Transactions[i].date # LocaleDateString(Now0)

\* no transaction of the ledger has this id
Removed(id) == \A k \in DOMAIN Transactions : Transactions[k].id # id

\* C11: the answer to a description capture whose transaction has been
\* removed, and the answer to any capture started before the document was
\* reset, leaves the document (info and transactions) as it is.
C11_StaleResponseDiscarded ==
  [][ /\ \A i \in DOMAIN calls, outcome \in TextOutcomes :
           /\ (Removed(calls[i].target) /\ DescResponse(i, outcome)) =>
                 data' = data
           /\ (dataRef = "sample" /\ DescResponse(i, outcome)) => data' = data
           /\ (dataRef = "sample" /\ FieldResponse(i, outcome)) => data' = data
      /\ \A i \in DOMAIN calls, outcome \in VoiceParseOutcomes :
           (dataRef = "sample" /\ SmartResponse(i, outcome)) => data' = data
    ]_vars

\* the isProcessing prop of the VoiceInput of a call's target: the target's
\* busy mark
TargetBusy(call) ==
  IF call.kind = "field" THEN processingField = call.target
  ELSE IF call.kind = "desc" THEN processingField = TransKey(call.target)
  ELSE isProcessingAI

\* C12: every target whose capture is in flight is marked busy, also while
\* captures for other targets start and finish.
C12_PendingTargetsBusy == \A i \in DOMAIN calls : TargetBusy(calls[i])

\* C13: a capture whose call fails leaves the document as it is, clears its
\* target's busy mark and is no longer pending; and, every call being
\* answered eventually, a busy mark that is set is eventually cleared.
C13_FailedCaptureReturnsToIdle ==
  /\ [][ \A i \in DOMAIN calls, outcome \in Failures :
           FailureStep(i, outcome) =>
              /\ data' = data
              /\ calls' = RemoveAt(calls, i)
              /\ IF calls[i].kind = "field"
                   THEN processingField' # calls[i].target
                 ELSE IF calls[i].kind = "desc"
                   THEN processingField' # TransKey(calls[i].target)
                 ELSE ~isProcessingAI'
       ]_vars
  /\ isProcessingAI ~> ~isProcessingAI
  /\ (processingField # Null) ~> (processingField = Null)

\* C13's case: after a capture had written the name, another capture failed
\* and nothing is pending or marked busy
C13_Witness ==
  /\ data.info.name \in SpokenTexts
  /\ aiFeedback = MSG_CONNECTION
  /\ calls = <<>>
  /\ processingField = Null
  /\ ~isProcessingAI

\* C14: a save that fails changes neither the in-memory document nor
\* anything shown to the user (notification, AI status, reset dialog) nor
\* the store; after a failure an edit is still accepted, is applied and
\* issues a new save of the edited document.
C14_FailedSaveChangesNothingVisible ==
  /\ [][ SaveFails =>
           /\ data' = data
           /\ aiFeedback' = aiFeedback
           /\ apiKeyError' = apiKeyError
           /\ showResetConfirm' = showResetConfirm
           /\ db' = db
       ]_vars
  /\ [][ /\ \A value \in TypedNames :
              (errorLogged /\ handleInfoChange("name", value)) =>
                 /\ data'.info.name = value
                 /\ dbQueue' = Append(dbQueue, SaveRequest(data'))
         /\ (errorLogged /\ addTransaction) =>
               /\ Len(Transactions') = Len(Transactions) + 1
               /\ dbQueue' = Append(dbQueue, SaveRequest(data'))
       ]_vars
  /\ [](errorLogged /\ Room =>
          \A value \in TypedNames : ENABLED handleInfoChange("name", value))

\* C14's case: a save failed, the user went on editing and the save of the
\* latest edit has succeeded
C14_Witness ==
  /\ errorLogged
  /\ dbQueue = <<>>
  /\ data.info.name \in TypedNames
  /\ Len(Transactions) = 3
  /\ db = <<data>>

\* what a run has done, in order
OpsOf(did) == [k \in DOMAIN did |-> did[k].op]

FallbackOps == <<"alert", "download">>

\* C15: a run calls navigator.share exactly when sharing files is available;
\* a run whose share resolved has done nothing else; a run that could not
\* share, or whose share was rejected, has downloaded the file and opens
\* the mail composer after the download and only once; every effect of a
\* run is about the document the run started with; every run ends, shared
\* or fallen back.
C15_ShareOrFallback ==
  /\ [](LET ops == OpsOf(share.did)
        IN  /\ share.pc = "idle" => ops = <<>>
            /\ share.pc \in {"sharing", "shared"} => ops = <<"share">>
            /\ share.pc = "timer" =>
                 ops \in {FallbackOps, <<"share">> \o FallbackOps}
            /\ share.pc = "fallback" =>
                 ops \in {FallbackOps \o <<"mailto">>,
                          <<"share">> \o FallbackOps \o <<"mailto">>}
            /\ \A k \in DOMAIN share.did : share.did[k].doc = share.doc)
  /\ [][ /\ \A canShare \in BOOLEAN :
              handleSendExcel(canShare) =>
                 /\ (share'.pc = "sharing") <=> canShare
                 /\ (share'.pc = "timer") <=> ~canShare
                 /\ share'.doc = data
         /\ ShareResolves => share'.pc = "shared"
         /\ ShareRejects => share'.pc = "timer"
         /\ MailTimerFires => share'.pc = "fallback"
       ]_vars
  /\ (share.pc \in {"sharing", "timer"}) ~> (share.pc \in {"shared", "fallback"})

\* C15's case: the share of an edited document was rejected and the run fell
\* back to the download and the mail composer
C15_Witness ==
  /\ share.pc = "fallback"
  /\ OpsOf(share.did) = <<"share", "alert", "download", "mailto">>
  /\ share.doc.info.name \in TypedNames

\* C16: an update changes the named field of exactly one transaction, the
\* one with the id, and a removal removes exactly one transaction, the one
\* with the id; info and all other transactions stay as they are.
C16_OneTransactionTouched ==
  [][ /\ \A i \in DOMAIN Transactions, value \in TypedDescriptions :
           updateTransaction(Transactions[i].id, "description", value) =>
              /\ data'.info = data.info
              /\ \E k \in DOMAIN Transactions :
                   /\ Transactions[k].id = Transactions[i].id
                   /\ Transactions' =
                        [Transactions EXCEPT ![k].description = value]
      /\ \A i \in DOMAIN Transactions :
           removeTransaction(Transactions[i].id) =>
              /\ data'.info = data.info
              /\ \E k \in DOMAIN Transactions :
                   /\ Transactions[k].id = Transactions[i].id
                   /\ Transactions' = RemoveAt(Transactions, k)
    ]_vars

\* C17: while the startup load has not resolved the in-memory document does
\* not change, and the step that completes the load does not replace a
\* document the user has edited.
C17_NoMutationBeforeLoad ==
  [][ /\ (~isLoaded /\ ~isLoaded') => data' = data
      /\ (initData /\ dataRef = "fresh") => data' = data
    ]_vars

\* the messages a finished capture shows for three seconds
Notifications == {MSG_ADDED, MSG_NO_KEY, MSG_CONNECTION}

\* a capture request: one of the three handlers is called with a recording
CaptureRequest ==
  \/ \E field \in InfoFields : handleVoiceForField(field)
  \/ \E i \in DOMAIN Transactions : handleVoiceForTransactionDesc(Transactions[i].id)
  \/ handleSmartVoiceAdd("audio")

\* C18: a notification on display is cleared by its own timer, the youngest
\* one pending, and not by the timer of an earlier notification; and a
\* transcription call is issued only by a capture request.
C18_NotificationClearedByOwnTimer ==
  [][ /\ (TimerFires /\ aiFeedback \in Notifications) => timers = 1
      /\ Len(calls') > Len(calls) => CaptureRequest
    ]_vars

\* C19: when the clear requested by a reset settles, with success or with
\* failure, the in-memory document is the default sample and the reset
\* dialog is closed.
C19_ResetLeavesDefaultInMemory ==
  [][ (ClearSucceeds \/ ClearFails) =>
         /\ data' = SAMPLE_DATA
         /\ ~showResetConfirm'
    ]_vars

\* C20: apiKeyError becomes true only in the startup check without a
\* credential or when a call fails with API_KEY_MISSING; while it is true a
\* capture for a target that is not busy is accepted and issues its call,
\* and the manual edits, the reset and the export are accepted as well.
C20_OfflineFlagBlocksNothing ==
  /\ [][ (~apiKeyError /\ apiKeyError') =>
            \/ initData /\ apiKeyMissing
            \/ \E i \in DOMAIN calls : FailureStep(i, Failure(API_KEY_MISSING))
       ]_vars
  /\ [](apiKeyError =>
          /\ \A field \in InfoFields :
               (processingField # field /\ CaptureRoom) =>
                  ENABLED handleVoiceForField(field)
          /\ \A i \in DOMAIN Transactions :
               (processingField # TransKey(Transactions[i].id) /\ CaptureRoom) =>
                  ENABLED handleVoiceForTransactionDesc(Transactions[i].id)
          /\ (~isProcessingAI /\ CaptureRoom /\ TxRoom) =>
                ENABLED handleSmartVoiceAdd("audio")
          /\ Room =>
                /\ \A value \in TypedNames : ENABLED handleInfoChange("name", value)
                /\ \A i \in DOMAIN Transactions, value \in TypedDescriptions :
                     /\ ENABLED updateTransaction(Transactions[i].id,
                                                  "description", value)
                     /\ ENABLED removeTransaction(Transactions[i].id)
                /\ TxRoom => ENABLED addTransaction
                /\ showResetConfirm => ENABLED handleReset
          /\ ~showResetConfirm => ENABLED openResetConfirm
          /\ ShareEnded => \A canShare \in BOOLEAN : ENABLED handleSendExcel(canShare))
  /\ [][ apiKeyError =>
            /\ \A field \in InfoFields :
                 handleVoiceForField(field) =>
                    calls' = Append(calls, FieldCall(field))
            /\ handleSmartVoiceAdd("audio") => calls' = Append(calls, SmartCall)
       ]_vars

\* C20's case: with the flag set and its message on display a capture is in
\* flight, the document has been edited by hand and an export has run
C20_Witness ==
  /\ apiKeyError
  /\ aiFeedback = MSG_NO_KEY
  /\ processingField \in CaptureFields
  /\ calls # <<>>
  /\ data.info.name \in TypedNames
  /\ share.pc = "fallback"

====
